---- MODULE Spec2Model ----
(***************************************************************************)
(* ConsumptieTracker (src/app/index.tsx, lines 1-343): a React Native app  *)
(* whose four screens keep items, payment batches and settings in hook     *)
(* state that is mirrored to AsyncStorage by effects.                      *)
(*                                                                         *)
(* The model is the app as a state machine: the mounted screen and its     *)
(* hook state, the persisted store, the storage requests in flight and the *)
(* handlers suspended at an await.  Storage requests complete in the order *)
(* they were issued (the native AsyncStorage module runs them on one       *)
(* serial queue); awaits on other modules (Crypto, Haptics) complete at    *)
(* any time; the user may press any enabled control at any time.           *)
(***************************************************************************)
EXTENDS Integers, Sequences, FiniteSets, TLC

(* ---------------------------- bounds ----------------------------------- *)
MaxItems == 2
MaxBatches == 2
MaxMounts == 1
MaxSaves == 1
MaxClock == 1
MaxHandlers == 2

(* ------------------------- values of the program ----------------------- *)
ItemTypes == {"Bier", "Fris", "Snoep"}
Tabs == {"add", "list", "pay", "settings"}
K_ITEMS == "ct.items.v1"
K_SETTINGS == "ct.settings.v1"
K_PAYMENTS == "ct.payments.v1"

\* An optional field of an object: the key is missing, or present with the
\* value undefined, or present with a value (a positive number here).
Missing == 0
Undefined == 0 - 1

\* The numbers Infinity and, in a document, null: JSON.stringify writes a
\* number that is not finite as null.
Infinity == 1000000000
Null == 0 - 2

DefaultSettings == [basePriceCents |-> 70, currencyCode |-> "EUR"]

\* What the user enters on the Add screen while the ledger runs (Spec).
AddTypes == {"Bier", "Fris"}
Labels == {<< >>}

\* Strings the user can type, as sequences of characters.
Searches == {<< >>, <<"b">>, <<"I", "E">>, <<",">>}

VARIABLES
    tab,        \* App: the mounted screen
    settings,   \* useSettings state of the mounted screen
    items,      \* useItems state of the mounted screen
    payments,   \* usePayments state of the mounted screen
    store,      \* AsyncStorage: the decoded document under each key
    stored,     \* AsyncStorage: the keys that hold a document
    queue,      \* storage requests in flight, oldest first
    tasks,      \* handlers suspended at an await of Crypto or Haptics
    clock,      \* the wall clock nowISO reads
    nextItem,   \* supply of item uuids
    nextBatch,  \* supply of batch ids
    mounts,     \* tab presses so far
    saves,      \* settings saves so far
    hist,       \* history: what was created, settled and reversed, the last remove
    out         \* what the mounted screen last rendered or shared

vars == <<tab, settings, items, payments,
          store, stored, queue, tasks, clock, nextItem, nextBatch, mounts, saves,
          hist, out>>

(* ------------------------------ strings -------------------------------- *)
\* String.prototype.toLowerCase, on the characters the model uses.
LowerOf(c) ==
    CASE c = "B" -> "b"
      [] c = "F" -> "f"
      [] c = "S" -> "s"
      [] OTHER -> c

toLowerCase(s) == [i \in 1..Len(s) |-> LowerOf(s[i])]

\* String.prototype.includes
includes(s, sub) ==
    \E i \in 0..(Len(s) - Len(sub)) : SubSeq(s, i + 1, i + Len(sub)) = sub

\* The characters of an ItemType.
TypeName(t) ==
    CASE t = "Bier" -> <<"B", "i", "e", "r">>
      [] t = "Fris" -> <<"F", "r", "i", "s">>
      [] t = "Snoep" -> <<"S", "n", "o", "e", "p">>

DigitChars == <<"0", "1", "2", "3", "4", "5", "6", "7", "8", "9">>

\* String(n) for a non-negative integer.
RECURSIVE String(_)
String(n) ==
    IF n < 10 THEN <<DigitChars[n + 1]>>
    ELSE String(n \div 10) \o <<DigitChars[(n % 10) + 1]>>

IsDigit(c) == \E d \in 1..10 : DigitChars[d] = c
DigitVal(c) == (CHOOSE d \in 1..10 : DigitChars[d] = c) - 1

\* Array.prototype.join
RECURSIVE join(_, _)
join(parts, sep) ==
    IF parts = << >> THEN << >>
    ELSE IF Len(parts) = 1 THEN parts[1]
    ELSE parts[1] \o sep \o join(Tail(parts), sep)

(* ------------------------------- codec --------------------------------- *)
\* JSON.stringify leaves out a property whose value is undefined.
Drop(v) == IF v = Undefined THEN Missing ELSE v

EncodeItem(it) ==
    [it EXCEPT !.paidAt = Drop(it.paidAt), !.paymentId = Drop(it.paymentId)]

\* saveJSON's JSON.stringify(value): the document AsyncStorage.setItem gets,
\* held as what JSON.parse reads back from it.
Encode(key, value) ==
    IF key = K_ITEMS THEN [i \in 1..Len(value) |-> EncodeItem(value[i])]
    ELSE IF key = K_SETTINGS
    THEN [value EXCEPT !.basePriceCents = IF @ = Infinity THEN Null ELSE @]
    ELSE value

\* What AsyncStorage.getItem gives: null for a key that holds nothing, or the
\* text under the key (the empty text, a text JSON.parse throws on, a text
\* JSON.parse reads as doc), or a rejection when the read fails.
NoText == [kind |-> "null"]
EmptyText == [kind |-> "empty"]
Garbled == [kind |-> "garbled"]
Rejected == [kind |-> "rejected"]
Text(doc) == [kind |-> "json", doc |-> doc]

\* JSON.stringify(value), as saveJSON hands it to AsyncStorage.setItem.
stringify(key, value) == Text(Encode(key, value))

\* loadJSON: the await of getItem is outside the try, so a rejection is
\* loadJSON's; null and the empty text are falsy; a throw of JSON.parse is
\* caught.
loadJSON(raw, fallback) ==
    IF raw.kind = "rejected" THEN [threw |-> TRUE]
    ELSE IF raw.kind \in {"null", "empty"} THEN [threw |-> FALSE, value |-> fallback]
    ELSE IF raw.kind = "garbled" THEN [threw |-> FALSE, value |-> fallback]
    ELSE [threw |-> FALSE, value |-> raw.doc]

\* A string (an ISO timestamp, a uuid) is truthy when it is there.
Truthy(v) == v # Missing /\ v # Undefined

(* ------------------------------ pricing -------------------------------- *)
\* A faulty priceCents: everything but Fris costs double.
priceCentsNotFris(type, s) ==
    IF type # "Fris" THEN s.basePriceCents * 2 ELSE s.basePriceCents

\* AddScreen's priceCents memo.
priceCents(type, s) ==
    IF type = "Bier" THEN s.basePriceCents * 2 ELSE s.basePriceCents

(* ------------------------------ overview ------------------------------- *)
\* Array.prototype.sort with (a, b) => b.date - a.date: newest first, stable.
RECURSIVE InsertByDate(_, _)
InsertByDate(x, s) ==
    IF s = << >> THEN <<x>>
    ELSE IF Head(s).date >= x.date THEN <<Head(s)>> \o InsertByDate(x, Tail(s))
    ELSE <<x>> \o s

RECURSIVE sorted(_)
sorted(its) ==
    IF its = << >> THEN << >>
    ELSE InsertByDate(its[Len(its)], sorted(SubSeq(its, 1, Len(its) - 1)))

\* A faulty shown: the two conditions joined by || instead of &&.
shownEither(it, unpaidOnly, text) ==
    \/ (~unpaidOnly \/ ~Truthy(it.paidAt))
    \/ text = << >>
    \/ includes(toLowerCase(it.userLabel), toLowerCase(text))
    \/ includes(toLowerCase(TypeName(it.type)), toLowerCase(text))

\* The predicate of OverviewScreen's filtered memo.
shown(it, unpaidOnly, text) ==
    /\ (~unpaidOnly \/ ~Truthy(it.paidAt))
    /\ \/ text = << >>
       \/ includes(toLowerCase(it.userLabel), toLowerCase(text))
       \/ includes(toLowerCase(TypeName(it.type)), toLowerCase(text))

filtered(its, unpaidOnly, text) ==
    SelectSeq(sorted(its), LAMBDA it : shown(it, unpaidOnly, text))

selectedItems(its, unpaidOnly, text, sel) ==
    SelectSeq(filtered(its, unpaidOnly, text), LAMBDA it : it.uuid \in sel)

Uuids(its) == {its[i].uuid : i \in 1..Len(its)}

(* --------------------------- storage requests -------------------------- *)
\* loadJSON's AsyncStorage.getItem issued by a hook's first effect.
HookGet(key) ==
    [op |-> "get", key |-> key, val |-> << >>, by |-> "hook",
     alive |-> TRUE, c |-> << >>]

\* saveJSON issued by a hook's second effect: nobody awaits it.
HookSet(key, value) ==
    [op |-> "set", key |-> key, val |-> Encode(key, value), by |-> "hook",
     alive |-> FALSE, c |-> << >>]

\* The effects a screen's hooks run after its first render, in hook order.
useSettings == <<HookGet(K_SETTINGS), HookSet(K_SETTINGS, DefaultSettings)>>
\* A faulty useItems: the save effect runs before the load effect.
useItemsSaveFirst == <<HookSet(K_ITEMS, << >>), HookGet(K_ITEMS)>>
useItems == <<HookGet(K_ITEMS), HookSet(K_ITEMS, << >>)>>
usePayments == <<HookGet(K_PAYMENTS), HookSet(K_PAYMENTS, << >>)>>

\* AsyncStorage holding these three documents.
Documents(its, ps, s) == (K_ITEMS :> its) @@ (K_PAYMENTS :> ps) @@ (K_SETTINGS :> s)

MountEffects(t) ==
    CASE t = "add" -> useSettings \o useItems
      [] t = "list" -> useSettings \o useItems
      [] t = "pay" -> useSettings \o useItems \o usePayments
      [] t = "settings" -> useSettings

\* A state setter of an unmounted component does nothing: what is still in
\* flight for the screen that goes away loses its component.
Orphaned(s) == [i \in 1..Len(s) |-> [s[i] EXCEPT !.alive = FALSE]]

\* nowISO: the time read is the last one read, or a later one, in a run
\* whose clock stops at h.
LaterUpTo(h) == {t \in {clock, clock + 1} : t <= h}

Later == LaterUpTo(MaxClock)

\* n calls of nowISO in a row: each reads the time of the one before, or a
\* later one.
Reads(n, h) ==
    {now \in [1..n -> clock..h] :
        \A k \in 1..n : now[k] - (IF k = 1 THEN clock ELSE now[k - 1]) \in {0, 1}}

\* The handlers (add, createPayment, remove) that have not run to their end.
Handlers == Len(tasks) + Cardinality({k \in 1..Len(queue) : queue[k].by # "hook"})

RemoveAt(s, i) == SubSeq(s, 1, i - 1) \o SubSeq(s, i + 1, Len(s))

\* App renders screen t in place of the mounted one: fresh hook state, then
\* the hooks' effects.
Mount(t, q, ts) ==
    /\ tab' = t
    /\ settings' = DefaultSettings
    /\ items' = << >>
    /\ payments' = << >>
    /\ queue' = Orphaned(q) \o MountEffects(t)
    /\ tasks' = Orphaned(ts)

Init ==
    /\ tab = "add"
    /\ settings = DefaultSettings
    /\ items = << >>
    /\ payments = << >>
    /\ store = Documents(<< >>, << >>, DefaultSettings)
    /\ stored = {}
    /\ queue = MountEffects("add")
    /\ tasks = << >>
    /\ clock = 1
    /\ nextItem = 1
    /\ nextBatch = 1
    /\ mounts = 0
    /\ saves = 0
    /\ hist = [born |-> [u \in 1..MaxItems |-> 0],
               settled |-> [b \in 1..MaxBatches |-> {}],
               reversed |-> {},
               last |-> << >>]
    /\ out = [kind |-> "none"]

(* ------------------------------- NavBar -------------------------------- *)
SwitchTab(t) ==
    /\ t # tab
    /\ mounts < MaxMounts
    /\ mounts' = mounts + 1
    /\ Mount(t, queue, tasks)
    /\ UNCHANGED <<out, store, stored, clock, nextItem, nextBatch, saves, hist>>

(* ------------------------------ AddScreen ------------------------------ *)
\* add, up to its await of Crypto.randomUUID: the closure holds the render's
\* type, userLabel, priceCents and items.
PressAdd(type, userLabel) ==
    /\ tab = "add"
    /\ nextItem <= MaxItems
    /\ Handlers < MaxHandlers
    /\ tasks' = Append(tasks,
          [t |-> "uuid", by |-> "add", alive |-> TRUE,
           c |-> [uuid |-> nextItem, type |-> type, userLabel |-> userLabel,
                  priceCents |-> priceCents(type, settings), items |-> items]])
    /\ nextItem' = nextItem + 1
    /\ hist' = [hist EXCEPT !.born[nextItem] = priceCents(type, settings)]
    /\ UNCHANGED <<out, tab, settings, items, payments, store, stored, queue, clock, nextBatch, mounts, saves>>

NewItem(c, now) ==
    [uuid |-> c.uuid, type |-> c.type, date |-> now, priceCents |-> c.priceCents,
     userLabel |-> c.userLabel, paidAt |-> Missing, paymentId |-> Missing]

\* A faulty prepended: the item goes in front of the screen's latest items.
prependedToLatest(item, its) == <<item>> \o items

\* [item, ...items], over the items of the render add was pressed in.
prepended(item, its) == <<item>> \o its

\* add, from the uuid to its await of Haptics: setItems([item, ...items]) and,
\* after the render, useItems' save effect.
AddItem(i) ==
    /\ i \in 1..Len(tasks)
    /\ tasks[i].t = "uuid" /\ tasks[i].by = "add"
    /\ \E now \in Later :
       LET c == tasks[i].c
           updated == prepended(NewItem(c, now), c.items)
       IN  /\ clock' = now
           /\ IF tasks[i].alive
              THEN /\ items' = updated
                   /\ queue' = Append(queue, HookSet(K_ITEMS, updated))
              ELSE UNCHANGED <<items, queue>>
           /\ tasks' = [tasks EXCEPT ![i] = [t |-> "haptic", by |-> "add",
                                             alive |-> tasks[i].alive, c |-> << >>]]
    /\ UNCHANGED <<out, tab, settings, payments, store, stored, nextItem, nextBatch, mounts, saves, hist>>

\* add, after Haptics: the alert, then onSaved, which is App's setTab('list').
AddSaved(i) ==
    /\ i \in 1..Len(tasks)
    /\ tasks[i].t = "haptic" /\ tasks[i].by = "add"
    /\ IF tab # "list"
       THEN Mount("list", queue, RemoveAt(tasks, i))
       ELSE /\ tasks' = RemoveAt(tasks, i)
            /\ UNCHANGED <<tab, settings, items, payments, queue>>
    /\ UNCHANGED <<out, store, stored, clock, nextItem, nextBatch, mounts, saves, hist>>

(* ---------------------------- OverviewScreen --------------------------- *)
\* A faulty Disabled: the button is never disabled.
DisabledNever(sel) == FALSE

\* The disabled prop of the Afrekenen button.
Disabled(sel) == Len(sel) = 0

\* The switch, the search text and the check boxes are local state that only
\* decides what the Afrekenen button passes on: the press takes them as the
\* user has left them (onlyUnpaid, search, selected).  A disabled Pressable
\* does not call onPress: the press is only noted.  Otherwise the button
\* calls createPayment(selectedItems, {items, setItems}), which first awaits
\* Crypto.randomUUID.
PressAfrekenen(onlyUnpaid, search, selected) ==
    /\ tab = "list"
    /\ selected \subseteq Uuids(filtered(items, onlyUnpaid, search))
    /\ LET sel == selectedItems(items, onlyUnpaid, search, selected)
       IN  IF Disabled(sel)
           THEN /\ out' = [kind |-> "disabled"]
                /\ UNCHANGED <<tasks, hist, nextBatch>>
           ELSE /\ nextBatch <= MaxBatches
                /\ Handlers < MaxHandlers
                /\ tasks' = Append(tasks,
                      [t |-> "uuid", by |-> "createPayment", alive |-> TRUE,
                       c |-> [id |-> nextBatch, sel |-> sel, items |-> items]])
                /\ hist' = [hist EXCEPT !.settled[nextBatch] = Uuids(sel)]
                /\ nextBatch' = nextBatch + 1
                /\ UNCHANGED out
    /\ UNCHANGED <<tab, settings, items, payments, store, stored, queue, clock, nextItem, mounts, saves>>

\* createPayment, from the uuid to the getItem of loadJSON(K_PAYMENTS).
CreateBatchAt(i, h) ==
    /\ i \in 1..Len(tasks)
    /\ tasks[i].t = "uuid" /\ tasks[i].by = "createPayment"
    /\ \E now \in LaterUpTo(h) :
       LET c == tasks[i].c
           batch == [id |-> c.id, createdAt |-> now]
       IN  /\ clock' = now
           /\ queue' = Append(queue,
              [op |-> "get", key |-> K_PAYMENTS, val |-> << >>,
               by |-> "createPayment", alive |-> tasks[i].alive,
               c |-> [batch |-> batch, sel |-> c.sel, items |-> c.items]])
    /\ tasks' = RemoveAt(tasks, i)
    /\ UNCHANGED <<out, tab, settings, items, payments, store, stored, nextItem, nextBatch, mounts, saves, hist>>

CreateBatch(i) == CreateBatchAt(i, MaxClock)

\* A faulty markPaid: the settled item is repriced at the base price.
markPaidRepriced(ctxItems, sel, id, now) ==
    [k \in 1..Len(ctxItems) |->
        IF \E j \in 1..Len(sel) : sel[j].uuid = ctxItems[k].uuid
        THEN [ctxItems[k] EXCEPT !.paidAt = now[k], !.paymentId = id,
                                 !.priceCents = settings.basePriceCents]
        ELSE ctxItems[k]]

\* A faulty markPaid: every item is marked, selected or not.
markPaidAll(ctxItems, sel, id, now) ==
    [k \in 1..Len(ctxItems) |-> [ctxItems[k] EXCEPT !.paidAt = now[k], !.paymentId = id]]

\* The map of createPayment: each selected item gets paymentId and, as
\* paidAt, the time nowISO gives when the map is at it (now[k]).
markPaid(ctxItems, sel, id, now) ==
    [k \in 1..Len(ctxItems) |->
        IF \E j \in 1..Len(sel) : sel[j].uuid = ctxItems[k].uuid
        THEN [ctxItems[k] EXCEPT !.paidAt = now[k], !.paymentId = id]
        ELSE ctxItems[k]]

(* ---------------------------- PaymentsScreen --------------------------- *)
RECURSIVE Sum(_)
Sum(ns) == IF ns = << >> THEN 0 ELSE Head(ns) + Sum(Tail(ns))

batchItems(p, its) == SelectSeq(its, LAMBDA it : it.paymentId = p.id)

totalFor(p, its) ==
    LET of == batchItems(p, its)
    IN  Sum([k \in 1..Len(of) |-> of[k].priceCents])

\* A faulty clearPaid: paidAt is left as it was.
clearPaidId(its, pid) ==
    [k \in 1..Len(its) |->
        IF its[k].paymentId = pid
        THEN [its[k] EXCEPT !.paymentId = Undefined]
        ELSE its[k]]

\* A faulty clearPaid: the batch id is compared with the item's uuid.
clearPaidByUuid(its, pid) ==
    [k \in 1..Len(its) |->
        IF its[k].uuid = pid
        THEN [its[k] EXCEPT !.paymentId = Undefined, !.paidAt = Undefined]
        ELSE its[k]]

\* A faulty clearPaid: every item is cleared, of this batch or not.
clearPaidAll(its, pid) ==
    [k \in 1..Len(its) |-> [its[k] EXCEPT !.paymentId = Undefined, !.paidAt = Undefined]]

\* The map of remove: the batch's items get paymentId and paidAt undefined.
clearPaid(its, pid) ==
    [k \in 1..Len(its) |->
        IF its[k].paymentId = pid
        THEN [its[k] EXCEPT !.paymentId = Undefined, !.paidAt = Undefined]
        ELSE its[k]]

\* A faulty without: the first row of the list on screen goes, whatever the id.
withoutFirst(ps, pid) == IF payments = << >> THEN << >> ELSE Tail(payments)

\* The filter of remove: the batches other than pid.
without(ps, pid) == SelectSeq(ps, LAMBDA x : x.id # pid)

\* remove, up to its await of saveJSON(K_ITEMS, its).
PressRemove(k) ==
    /\ tab = "pay"
    /\ k \in 1..Len(payments)
    /\ Handlers < MaxHandlers
    /\ queue' = Append(queue,
          [op |-> "set", key |-> K_ITEMS,
           val |-> Encode(K_ITEMS, clearPaid(items, payments[k].id)),
           by |-> "remove", alive |-> TRUE,
           c |-> [pid |-> payments[k].id, payments |-> payments]])
    /\ UNCHANGED <<out, tab, settings, items, payments, store, stored, tasks, clock, nextItem, nextBatch, mounts,
                   saves, hist>>

(* ---------------------------- SettingsScreen --------------------------- *)
\* What the user can type in the price and currency fields.
BaseInputs == {<<"0", ",", "5">>, <<"x">>, <<"0">>}
CodeInputs == {"", "USD"}

\* String.prototype.replace(',', '.'): the first comma only.
RECURSIVE replaceComma(_)
replaceComma(s) ==
    IF s = << >> THEN << >>
    ELSE IF Head(s) = "," THEN <<".">> \o Tail(s)
    ELSE <<Head(s)>> \o replaceComma(Tail(s))

RECURSIVE DigitsPrefix(_)
DigitsPrefix(s) ==
    IF s # << >> /\ IsDigit(Head(s)) THEN <<Head(s)>> \o DigitsPrefix(Tail(s))
    ELSE << >>

RECURSIVE Number(_)
Number(ds) ==
    IF ds = << >> THEN 0 ELSE Number(SubSeq(ds, 1, Len(ds) - 1)) * 10 + DigitVal(ds[Len(ds)])

DigitAt(ds, k) == IF k <= Len(ds) THEN DigitVal(ds[k]) ELSE 0

InfinityChars == <<"I", "n", "f", "i", "n", "i", "t", "y">>

\* Math.round(parseFloat(text) * 100): parseFloat reads a sign, then the
\* word Infinity or digits and a fraction, and ignores what follows; it is
\* NaN when neither is read.  (The inputs have at most two decimals, where
\* the binary product rounds to the decimal one.)
cents(text) ==
    LET neg == text # << >> /\ Head(text) = "-"
        body == IF neg THEN Tail(text) ELSE text
        inf == /\ Len(body) >= Len(InfinityChars)
               /\ SubSeq(body, 1, Len(InfinityChars)) = InfinityChars
        int == DigitsPrefix(body)
        rest == SubSeq(body, Len(int) + 1, Len(body))
        frac == IF rest # << >> /\ Head(rest) = "." THEN DigitsPrefix(Tail(rest)) ELSE << >>
        mag == IF inf THEN Infinity
               ELSE Number(int) * 100 + DigitAt(frac, 1) * 10 + DigitAt(frac, 2)
                      + (IF DigitAt(frac, 3) >= 5 THEN 1 ELSE 0)
    IN  [isNaN |-> ~inf /\ int = << >> /\ frac = << >>,
         n |-> IF neg THEN 0 - mag ELSE mag]

\* save: an invalid price alerts and returns; a valid one is setSettings,
\* and after the render useSettings' save effect.
save(base, code) ==
    /\ tab = "settings"
    /\ saves < MaxSaves
    /\ LET v == cents(replaceComma(base))
       IN  IF v.isNaN \/ v.n <= 0
           THEN UNCHANGED <<settings, queue, saves>>
           ELSE /\ settings' = [basePriceCents |-> v.n,
                                currencyCode |-> IF code = "" THEN "EUR" ELSE code]
                /\ queue' = Append(queue, HookSet(K_SETTINGS, settings'))
                /\ saves' = saves + 1
    /\ UNCHANGED <<out, tab, items, payments, store,
                   stored, tasks, clock, nextItem, nextBatch, mounts, hist>>

(* ----------------------- AsyncStorage completions ---------------------- *)
\* The native module serves its requests one at a time, oldest first.
Oldest(by, op) ==
    /\ queue # << >>
    /\ Head(queue).by = by
    /\ Head(queue).op = op

\* AsyncStorage.getItem(key), in a run without storage failures.
getItem(key) == IF key \in stored THEN Text(store[key]) ELSE NoText

\* getItem of a hook's loadJSON resolves: the parsed document, or the
\* fallback, goes to the state setter; a new value renders and runs the
\* hook's save effect.  useSettings passes its own state as the fallback.
Loaded ==
    /\ Oldest("hook", "get")
    /\ LET o == Head(queue)
           has == o.key \in stored
           q == Tail(queue)
       IN  IF ~o.alive \/ (o.key = K_SETTINGS /\ ~has)
           THEN /\ queue' = q
                /\ UNCHANGED <<settings, items, payments>>
           ELSE CASE o.key = K_SETTINGS ->
                       /\ settings' = loadJSON(getItem(K_SETTINGS), settings).value
                       /\ queue' = Append(q, HookSet(K_SETTINGS, settings'))
                       /\ UNCHANGED <<items, payments>>
                  [] o.key = K_ITEMS ->
                       /\ items' = loadJSON(getItem(K_ITEMS), << >>).value
                       /\ queue' = Append(q, HookSet(K_ITEMS, items'))
                       /\ UNCHANGED <<settings, payments>>
                  [] o.key = K_PAYMENTS ->
                       /\ payments' = loadJSON(getItem(K_PAYMENTS), << >>).value
                       /\ queue' = Append(q, HookSet(K_PAYMENTS, payments'))
                       /\ UNCHANGED <<settings, items>>
    /\ UNCHANGED <<out, tab, store, stored, tasks,
                   clock, nextItem, nextBatch, mounts, saves, hist>>

Write(o) ==
    /\ store' = [store EXCEPT ![o.key] = o.val]
    /\ stored' = stored \cup {o.key}

\* setItem of a hook's save effect is done.
Saved ==
    /\ Oldest("hook", "set")
    /\ Write(Head(queue))
    /\ queue' = Tail(queue)
    /\ UNCHANGED <<out, tab, settings, items, payments, tasks, clock, nextItem, nextBatch, mounts, saves, hist>>

\* createPayment: loadJSON(K_PAYMENTS) resolves, saveJSON of the batch in
\* front of what was read is issued.
PaymentsRead ==
    /\ Oldest("createPayment", "get")
    /\ LET o == Head(queue)
           read == loadJSON(getItem(K_PAYMENTS), << >>).value
       IN  queue' = Append(Tail(queue),
              [o EXCEPT !.op = "set", !.val = Encode(K_PAYMENTS, <<o.c.batch>> \o read)])
    /\ UNCHANGED <<out, tab, settings, items, payments, store, stored, tasks, clock, nextItem, nextBatch, mounts,
                   saves, hist>>

\* createPayment: the batch is saved; the captured items are mapped and
\* handed to ctx.setItems, and after the render useItems' save effect runs.
BatchSavedBy(h) ==
    /\ Oldest("createPayment", "set")
    /\ \E now \in Reads(Len(Head(queue).c.items), h) :
       LET o == Head(queue)
           updated == markPaid(o.c.items, o.c.sel, o.c.batch.id, now)
       IN  /\ clock' = IF now = << >> THEN clock ELSE now[Len(now)]
           /\ Write(o)
           /\ IF o.alive
              THEN /\ items' = updated
                   /\ queue' = Append(Tail(queue), HookSet(K_ITEMS, updated))
              ELSE /\ queue' = Tail(queue)
                   /\ UNCHANGED items
    /\ UNCHANGED <<out, tab, settings, payments, tasks,
                   nextItem, nextBatch, mounts, saves, hist>>

BatchSaved == BatchSavedBy(MaxClock)

\* What a call of remove is made of: the batch, the batches it saw and the
\* items it saves.
Call(o) == [pid |-> o.c.pid, payments |-> o.c.payments, val |-> o.val]

\* remove: the items are saved; setPayments gets the captured batches
\* without this one, and after the render usePayments' save effect runs.
Reversed ==
    /\ Oldest("remove", "set")
    /\ LET o == Head(queue)
           kept == without(o.c.payments, o.c.pid)
       IN  /\ Write(o)
           /\ hist' = [hist EXCEPT !.reversed = @ \cup {o.c.pid}, !.last = Call(o)]
           /\ IF o.alive
              THEN /\ payments' = kept
                   /\ queue' = Append(Tail(queue), HookSet(K_PAYMENTS, kept))
              ELSE /\ queue' = Tail(queue)
                   /\ UNCHANGED payments
    /\ UNCHANGED <<out, tab, settings, items, tasks,
                   clock, nextItem, nextBatch, mounts, saves>>

(* ----------------------------- specification --------------------------- *)
Next ==
    \/ \E t \in Tabs : SwitchTab(t)
    \/ \E type \in AddTypes, userLabel \in Labels : PressAdd(type, userLabel)
    \/ \E i \in 1..MaxItems + MaxBatches : AddItem(i)
    \/ \E i \in 1..MaxItems + MaxBatches : AddSaved(i)
    \/ \E onlyUnpaid \in BOOLEAN, search \in Searches, selected \in SUBSET (1..MaxItems) :
          PressAfrekenen(onlyUnpaid, search, selected)
    \/ \E i \in 1..MaxItems + MaxBatches : CreateBatch(i)
    \/ \E k \in 1..MaxBatches : PressRemove(k)
    \/ \E base \in BaseInputs, code \in CodeInputs : save(base, code)
    \/ Loaded
    \/ Saved
    \/ PaymentsRead
    \/ BatchSaved
    \/ Reversed

Spec == Init /\ [][Next]_vars

(* ------------- the settings under any text in the price field ---------- *)
\* The price field is a plain TextInput: any text can be saved.
PriceInputs == BaseInputs \cup {<<"1", "x">>, InfinityChars}

NextSettings ==
    \/ \E t \in Tabs : SwitchTab(t)
    \/ \E base \in PriceInputs, code \in CodeInputs : save(base, code)
    \/ Loaded
    \/ Saved

SpecSettings == Init /\ [][NextSettings]_vars

(* ------------------------- rendering and sharing ----------------------- *)
\* AddScreen renders the priceCents memo of the chosen type.
ShowPrice(type) ==
    /\ tab = "add"
    /\ out' = [kind |-> "price", type |-> type,
               priceCents |-> priceCents(type, settings)]
    /\ UNCHANGED <<tab, settings, items, payments, store, stored, queue, tasks,
                   clock, nextItem, nextBatch, mounts, saves, hist>>

\* OverviewScreen hands filtered to its FlatList.
ShowList(onlyUnpaid, search) ==
    /\ tab = "list"
    /\ out' = [kind |-> "list", onlyUnpaid |-> onlyUnpaid, search |-> search,
               rows |-> filtered(items, onlyUnpaid, search)]
    /\ UNCHANGED <<tab, settings, items, payments, store, stored, queue, tasks,
                   clock, nextItem, nextBatch, mounts, saves, hist>>

CsvHeader ==
    <<"type", ",", "prijs_cents", ",", "datum", ",", "user", ",", "betaald_op",
      ",", "batch_id">>

\* value ?? '' for a string that may be absent.
OrEmpty(v) == IF Truthy(v) THEN String(v) ELSE << >>

\* A faulty CsvRow: the date comes before the price.
CsvRowDateFirst(it, p) ==
    join(<<TypeName(it.type), String(it.date), String(it.priceCents),
           it.userLabel, OrEmpty(it.paidAt), String(p.id)>>, <<",">>)

CsvRow(it, p) ==
    join(<<TypeName(it.type), String(it.priceCents), String(it.date),
           it.userLabel, OrEmpty(it.paidAt), String(p.id)>>, <<",">>)

\* A faulty csv: the header is pushed after the rows.
csvHeaderLast(p, its) ==
    LET of == batchItems(p, its)
    IN  join([k \in 1..Len(of) |-> CsvRow(of[k], p)] \o <<CsvHeader>>, <<"\n">>)

\* The message shareCSV builds: the header and one row per item of the batch,
\* joined by line breaks.
csv(p, its) ==
    LET of == batchItems(p, its)
    IN  join(<<CsvHeader>> \o [k \in 1..Len(of) |-> CsvRow(of[k], p)], <<"\n">>)

shareCSV(k) ==
    /\ tab = "pay"
    /\ k \in 1..Len(payments)
    /\ out' = [kind |-> "csv", batch |-> payments[k],
               message |-> csv(payments[k], items)]
    /\ UNCHANGED <<tab, settings, items, payments, store, stored, queue, tasks,
                   clock, nextItem, nextBatch, mounts, saves, hist>>

(* ---------------- the screens over a loaded ledger (SpecViews) --------- *)
ViewLen == 2
ViewLabels == {<< >>, <<"B", ",">>}
ViewSettings ==
    {DefaultSettings, [basePriceCents |-> 50, currencyCode |-> "USD"],
     [basePriceCents |-> 1, currencyCode |-> "EUR"]}

\* The items a ledger can hold in its k-th place: any type and label, any
\* time of creation, unpaid or paid into any batch.
ViewItem(u) ==
    {[uuid |-> u, type |-> t, date |-> d,
      priceCents |-> priceCents(t, DefaultSettings), userLabel |-> l,
      paidAt |-> IF b = 0 THEN Missing ELSE 1,
      paymentId |-> IF b = 0 THEN Missing ELSE b] :
        t \in ItemTypes, d \in 1..2, l \in ViewLabels, b \in 0..MaxBatches}

RECURSIVE ViewItems(_)
ViewItems(n) ==
    IF n = 0 THEN {<< >>}
    ELSE ViewItems(n - 1) \cup
         {Append(s, it) : s \in {x \in ViewItems(n - 1) : Len(x) = n - 1},
                          it \in ViewItem(n)}

ViewPayments == [k \in 1..MaxBatches |-> [id |-> MaxBatches + 1 - k, createdAt |-> 1]]

InitViews ==
    /\ tab \in {"add", "list", "pay"}
    /\ settings \in IF tab = "add" THEN ViewSettings ELSE {DefaultSettings}
    /\ items \in IF tab = "add" THEN {<< >>} ELSE ViewItems(ViewLen)
    /\ payments = IF tab = "pay" THEN ViewPayments ELSE << >>
    /\ store = Documents(items, ViewPayments, settings)
    /\ stored = {K_ITEMS, K_PAYMENTS, K_SETTINGS}
    /\ queue = << >>
    /\ tasks = << >>
    /\ clock = 1
    /\ nextItem = MaxItems + 1
    /\ nextBatch = MaxBatches + 1
    /\ mounts = MaxMounts
    /\ saves = MaxSaves
    /\ hist = [born |-> [u \in 1..MaxItems |-> 0],
               settled |-> [b \in 1..MaxBatches |-> {}],
               reversed |-> {},
               last |-> << >>]
    /\ out = [kind |-> "none"]

NextViews ==
    \/ \E type \in ItemTypes : ShowPrice(type)
    \/ \E onlyUnpaid \in BOOLEAN, search \in Searches : ShowList(onlyUnpaid, search)
    \/ \E k \in 1..MaxBatches : shareCSV(k)

SpecViews == InitViews /\ [][NextViews]_vars

(* ------------- the codec over any stored text (SpecCodec) -------------- *)
CodecLen == 2

\* The items the app can hold in its k-th place, as the codec sees them: with
\* or without a label, never paid, paid, or cleared by remove.
CodecItem(u) ==
    {[uuid |-> u, type |-> "Bier", date |-> 1,
      priceCents |-> priceCents("Bier", DefaultSettings), userLabel |-> l,
      paidAt |-> paid, paymentId |-> paid] :
        l \in ViewLabels, paid \in {Missing, Undefined, 1}}

RECURSIVE CodecItems(_)
CodecItems(n) ==
    IF n = 0 THEN {<< >>}
    ELSE CodecItems(n - 1) \cup
         {Append(s, it) : s \in {x \in CodecItems(n - 1) : Len(x) = n - 1},
                          it \in CodecItem(n)}

\* The values each hook hands to saveJSON.
CodecValues(key) ==
    CASE key = K_ITEMS -> CodecItems(CodecLen)
      [] key = K_SETTINGS ->
            ViewSettings \cup {[basePriceCents |-> Infinity, currencyCode |-> "EUR"]}
      [] key = K_PAYMENTS -> {SubSeq(ViewPayments, 1, n) : n \in 0..MaxBatches}

\* The fallback each hook hands to loadJSON.
Fallback(key) == IF key = K_SETTINGS THEN DefaultSettings ELSE << >>

\* One key of AsyncStorage: the value x a hook holds, the text raw under the
\* key (or what a read of it gives), and what loadJSON last gave.
InitCodec ==
    /\ tab = "settings"
    /\ settings = DefaultSettings
    /\ items = << >>
    /\ payments = << >>
    /\ store = Documents(<< >>, << >>, DefaultSettings)
    /\ stored = {}
    /\ queue = << >>
    /\ tasks = << >>
    /\ clock = 1
    /\ nextItem = MaxItems + 1
    /\ nextBatch = MaxBatches + 1
    /\ mounts = MaxMounts
    /\ saves = MaxSaves
    /\ hist = [born |-> [u \in 1..MaxItems |-> 0],
               settled |-> [b \in 1..MaxBatches |-> {}],
               reversed |-> {},
               last |-> << >>]
    /\ out \in UNION {{[kind |-> "codec", key |-> k, x |-> x, raw |-> r,
                         saved |-> FALSE, loaded |-> FALSE, got |-> [threw |-> FALSE]] :
                            x \in CodecValues(k),
                            r \in {NoText, EmptyText, Garbled, Rejected}} :
                       k \in {K_ITEMS, K_SETTINGS, K_PAYMENTS}}

\* saveJSON(key, x): the text of x is under the key.
SaveDocument ==
    /\ ~out.saved
    /\ out' = [out EXCEPT !.raw = stringify(out.key, out.x), !.saved = TRUE,
                          !.loaded = FALSE]
    /\ UNCHANGED <<tab, settings, items, payments, store, stored, queue, tasks,
                   clock, nextItem, nextBatch, mounts, saves, hist>>

\* loadJSON(key, fallback).
LoadDocument ==
    /\ ~out.loaded
    /\ out' = [out EXCEPT !.got = loadJSON(out.raw, Fallback(out.key)), !.loaded = TRUE]
    /\ UNCHANGED <<tab, settings, items, payments, store, stored, queue, tasks,
                   clock, nextItem, nextBatch, mounts, saves, hist>>

NextCodec == SaveDocument \/ LoadDocument

SpecCodec == InitCodec /\ [][NextCodec]_vars

(* -------- settling on a loaded Overview screen (SpecSettle) ------------ *)
SettleClock == 2

\* An unpaid item as add makes it.
SettleItem(u) ==
    {NewItem([uuid |-> u, type |-> t, priceCents |-> priceCents(t, DefaultSettings),
              userLabel |-> << >>], 1) : t \in AddTypes}

\* The Overview screen after its loads, over one or two unpaid items and no
\* batch; the clock may go on to SettleClock while the user settles.
InitSettle ==
    /\ tab = "list"
    /\ settings = DefaultSettings
    /\ items \in {<<a>> : a \in SettleItem(1)}
                 \cup {<<b, a>> : b \in SettleItem(2), a \in SettleItem(1)}
    /\ payments = << >>
    /\ store = Documents(items, << >>, DefaultSettings)
    /\ stored = {K_ITEMS, K_SETTINGS}
    /\ queue = << >>
    /\ tasks = << >>
    /\ clock = 1
    /\ nextItem = MaxItems + 1
    /\ nextBatch = 1
    /\ mounts = MaxMounts
    /\ saves = MaxSaves
    /\ hist = [born |-> [u \in 1..MaxItems |->
                            IF u <= Len(items) THEN items[Len(items) + 1 - u].priceCents
                            ELSE 0],
               settled |-> [b \in 1..MaxBatches |-> {}],
               reversed |-> {},
               last |-> << >>]
    /\ out = [kind |-> "none"]

NextSettle ==
    \/ \E onlyUnpaid \in BOOLEAN, search \in Searches, selected \in SUBSET (1..MaxItems) :
          PressAfrekenen(onlyUnpaid, search, selected)
    \/ \E i \in 1..MaxBatches : CreateBatchAt(i, SettleClock)
    \/ PaymentsRead
    \/ BatchSavedBy(SettleClock)
    \/ Saved

SpecSettle == InitSettle /\ [][NextSettle]_vars

(* ------- settling while storage writes may fail (SpecSettleFailing) ---- *)
\* AsyncStorage.setItem rejects: nothing is written.  The saveJSON that
\* createPayment or remove awaits rejects into the handler, which ends at its
\* await; the saveJSON of a hook's save effect is awaited by nobody, and its
\* rejection goes nowhere.
WriteFails ==
    /\ queue # << >>
    /\ Head(queue).op = "set"
    /\ queue' = Tail(queue)
    /\ UNCHANGED <<out, tab, settings, items, payments, store, stored, tasks,
                   clock, nextItem, nextBatch, mounts, saves, hist>>

NextSettleFailing == NextSettle \/ WriteFails

SpecSettleFailing == InitSettle /\ [][NextSettleFailing]_vars

(* ------- a mount that the user leaves alone (SpecMount) ---------------- *)
\* What can be persisted when a screen is mounted: nothing yet, or items,
\* batches and settings that earlier screens have written.
MountDocuments ==
    {Documents(its, ps, s) :
        its \in {<< >>, <<[NewItem([uuid |-> 1, type |-> "Bier", priceCents |-> 140,
                                   userLabel |-> << >>], 1)
                             EXCEPT !.paidAt = 1, !.paymentId = 1]>>},
        ps \in {<< >>, <<[id |-> 1, createdAt |-> 1]>>},
        s \in ViewSettings}

\* Any screen right after its mount, nothing else in flight; out keeps what
\* was persisted at that moment.
InitMount ==
    /\ tab \in Tabs
    /\ settings = DefaultSettings
    /\ items = << >>
    /\ payments = << >>
    /\ \/ store \in MountDocuments /\ stored = {K_ITEMS, K_PAYMENTS, K_SETTINGS}
       \/ store = Documents(<< >>, << >>, DefaultSettings) /\ stored = {}
    /\ queue = MountEffects(tab)
    /\ tasks = << >>
    /\ clock = 1
    /\ nextItem = MaxItems + 1
    /\ nextBatch = MaxBatches + 1
    /\ mounts = MaxMounts
    /\ saves = MaxSaves
    /\ hist = [born |-> [u \in 1..MaxItems |-> 0],
               settled |-> [b \in 1..MaxBatches |-> {}],
               reversed |-> {},
               last |-> << >>]
    /\ out = [kind |-> "mounted", before |-> store]

NextMount == Loaded \/ Saved

SpecMount == InitMount /\ [][NextMount]_vars

(* ------- adding on a freshly mounted Add screen (SpecAdd) -------------- *)
\* The Add screen right after its mount, over settings that an earlier
\* Settings screen has persisted and no item yet.
InitAdd ==
    /\ tab = "add"
    /\ settings = DefaultSettings
    /\ items = << >>
    /\ payments = << >>
    /\ store \in {Documents(<< >>, << >>, s) : s \in ViewSettings}
    /\ stored = {K_ITEMS, K_SETTINGS}
    /\ queue = MountEffects("add")
    /\ tasks = << >>
    /\ clock = 1
    /\ nextItem = 1
    /\ nextBatch = 1
    /\ mounts = MaxMounts
    /\ saves = MaxSaves
    /\ hist = [born |-> [u \in 1..MaxItems |-> 0],
               settled |-> [b \in 1..MaxBatches |-> {}],
               reversed |-> {},
               last |-> << >>]
    /\ out = [kind |-> "none"]

NextAdd ==
    \/ \E type \in AddTypes, userLabel \in Labels : PressAdd(type, userLabel)
    \/ \E i \in 1..MaxItems : AddItem(i)
    \/ \E i \in 1..MaxItems : AddSaved(i)
    \/ Loaded
    \/ Saved

SpecAdd == InitAdd /\ [][NextAdd]_vars

(* ================================ claims =============================== *)
Ids(ps) == {ps[k].id : k \in 1..Len(ps)}

\* The items of its that only batch b has settled.
SettledOnlyBy(b, its) ==
    {k \in 1..Len(its) :
        /\ its[k].uuid \in hist.settled[b]
        /\ \A c \in 1..MaxBatches : c # b => its[k].uuid \notin hist.settled[c]}

Unmarked(it) == ~Truthy(it.paidAt) /\ ~Truthy(it.paymentId)

PaidFieldsPaired(its) ==
    \A k \in 1..Len(its) : Truthy(its[k].paidAt) <=> Truthy(its[k].paymentId)

\* C1: in every reachable state every item, in the mounted screen's items and
\* in the persisted items, has paidAt if and only if it has paymentId.
PaidAtIffPaymentId == PaidFieldsPaired(items) /\ PaidFieldsPaired(store[K_ITEMS])

\* C1's case: a batch has been reversed, and the persisted items hold an item
\* the reversal has cleared next to one that is still paid.
PaidAndClearedStored ==
    /\ hist.reversed # {}
    /\ \E k \in 1..Len(store[K_ITEMS]) :
          /\ Unmarked(store[K_ITEMS][k])
          /\ \E b \in hist.reversed : store[K_ITEMS][k].uuid \in hist.settled[b]
    /\ \E k \in 1..Len(store[K_ITEMS]) : Truthy(store[K_ITEMS][k].paidAt)

CreatedPrice(its) ==
    \A k \in 1..Len(its) : its[k].priceCents = hist.born[its[k].uuid]

\* C2: an item's priceCents is, in every later state, the priceCents it was
\* created with, whatever settings saves, settles, reverses and mounts follow.
PriceNeverChanges == CreatedPrice(items) /\ CreatedPrice(store[K_ITEMS])

\* C2's case: a settled item is persisted at a price that the settings
\* persisted after its creation would no longer give it.
PriceKeptAfterSettingsSave ==
    /\ store[K_SETTINGS].basePriceCents # DefaultSettings.basePriceCents
    /\ \E k \in 1..Len(store[K_ITEMS]) :
          /\ Truthy(store[K_ITEMS][k].paidAt)
          /\ store[K_ITEMS][k].priceCents # priceCents(store[K_ITEMS][k].type, store[K_SETTINGS])

\* C3: when remove(b) completes on its Payments screen, every persisted item
\* that createPayment settled into b has neither paidAt nor paymentId, and b
\* is in neither the screen's batches nor the batches it saves.
SettleThenReverse ==
    [][(Reversed /\ Head(queue).alive) =>
          LET b == Head(queue).c.pid
              saving == queue'[Len(queue')]
          IN  /\ \A k \in SettledOnlyBy(b, store'[K_ITEMS]) : Unmarked(store'[K_ITEMS][k])
              /\ b \notin Ids(payments')
              /\ saving.op = "set" /\ saving.key = K_PAYMENTS
              /\ b \notin Ids(saving.val)]_vars

\* C3's case: a batch that settled items has been reversed; its items are
\* persisted, unmarked, and the batch is gone from the persisted batches.
RoundTripDone ==
    \E b \in hist.reversed :
        /\ hist.settled[b] # {}
        /\ hist.settled[b] \subseteq Uuids(store[K_ITEMS])
        /\ \A k \in 1..Len(store[K_ITEMS]) :
              store[K_ITEMS][k].uuid \in hist.settled[b] => Unmarked(store[K_ITEMS][k])
        /\ b \notin Ids(store[K_PAYMENTS])
        /\ b \notin Ids(payments)
        /\ tab = "pay"

\* C4: once remove(b) has reversed batch b, no persisted item has
\* paymentId = b, in any later state.
ReversedBatchUnreferenced ==
    \A k \in 1..Len(store[K_ITEMS]) : store[K_ITEMS][k].paymentId \notin hist.reversed

\* C5: the persisted items never lose an item: every step keeps every uuid.
ItemsNeverDeleted == [][Uuids(store[K_ITEMS]) \subseteq Uuids(store'[K_ITEMS])]_vars

\* C6: when createPayment has settled the selection S into batch b on its
\* Overview screen, every item of S has paymentId = b.id, and totalFor(b) is
\* the sum of the priceCents of the items of S.
SettledTotal ==
    [][(BatchSaved /\ Head(queue).alive) =>
          LET b == Head(queue).c.batch
              S == Head(queue).c.sel
          IN  /\ S # << >>
              /\ \A j \in 1..Len(S) :
                    \E k \in 1..Len(items') :
                        items'[k].uuid = S[j].uuid /\ items'[k].paymentId = b.id
              /\ \A k \in 1..Len(items') :
                    items'[k].paymentId = b.id => items'[k].uuid \in Uuids(S)
              /\ totalFor(b, items') = Sum([j \in 1..Len(S) |-> S[j].priceCents])]_vars

\* C6's case: a Fris of 70 and a Bier of 140 settled into one batch of 210.
Settled210 ==
    \E b \in 1..MaxBatches :
        /\ tab = "list"
        /\ Len(items) = 2
        /\ hist.settled[b] = Uuids(items)
        /\ \A k \in 1..Len(items) : items[k].paymentId = b
        /\ \E k \in 1..Len(items) : items[k].priceCents = 70
        /\ totalFor([id |-> b], items) = 210

\* C7: the price shown for a new item is basePriceCents for Fris and Snoep
\* and twice basePriceCents for Bier; at a base of 70 that is 70 and 140.
PriceByType ==
    out.kind = "price" =>
        /\ out.type \in {"Fris", "Snoep"} => out.priceCents = settings.basePriceCents
        /\ out.type = "Bier" => out.priceCents = 2 * settings.basePriceCents
        /\ settings.basePriceCents = 70 =>
              out.priceCents = IF out.type = "Bier" THEN 140 ELSE 70

\* C7's case: a Bier priced at 140 under a base of 70.
Bier140 ==
    /\ out.kind = "price"
    /\ out.type = "Bier"
    /\ settings.basePriceCents = 70
    /\ out.priceCents = 140

\* C8: when a remove(b) completes on its Payments screen right after the
\* same remove(b) (a second press on the row, made while the first was at
\* work) has taken b out of the screen's batches, the persisted items, the
\* persisted batches and the screen's batches are what they were, and the
\* batches it saves are the screen's: twice is once.
ReverseAbsent ==
    [][(/\ Reversed
        /\ Head(queue).alive
        /\ Head(queue).c.pid \notin Ids(payments)
        /\ hist.last = Call(Head(queue))) =>
          /\ store'[K_ITEMS] = store[K_ITEMS]
          /\ store'[K_PAYMENTS] = store[K_PAYMENTS]
          /\ payments' = payments
          /\ queue'[Len(queue')] = HookSet(K_PAYMENTS, payments)]_vars

\* C8's case: remove(b) has completed twice on one Payments screen: both
\* saves of the batches without b are in flight, b's items are unmarked.
ReversedTwice ==
    /\ tab = "pay"
    /\ Len(queue) >= 2
    /\ queue[1] = queue[2]
    /\ queue[1].op = "set" /\ queue[1].key = K_PAYMENTS
    /\ \E b \in hist.reversed :
          /\ hist.last # << >> /\ hist.last.pid = b
          /\ b \notin Ids(payments)
          /\ b \in Ids(store[K_PAYMENTS])
          /\ \E k \in 1..Len(store[K_ITEMS]) :
                store[K_ITEMS][k].uuid \in hist.settled[b] /\ Unmarked(store[K_ITEMS][k])

\* text occurs in s, letters compared without regard to case.
OccursIn(text, s) ==
    \E i \in 0..(Len(s) - Len(text)) :
        \A j \in 1..Len(text) : LowerOf(text[j]) = LowerOf(s[i + j])

Matches(it, onlyUnpaid, text) ==
    /\ ~onlyUnpaid \/ it.paidAt = Missing
    /\ \/ text = << >>
       \/ OccursIn(text, it.userLabel)
       \/ OccursIn(text, TypeName(it.type))

RECURSIVE Split(_, _)
Split(s, sep) ==
    IF \A i \in 1..Len(s) : s[i] # sep THEN <<s>>
    ELSE LET i == CHOOSE n \in 1..Len(s) : s[n] = sep /\ \A j \in 1..(n - 1) : s[j] # sep
         IN  <<SubSeq(s, 1, i - 1)>> \o Split(SubSeq(s, i + 1, Len(s)), sep)

\* The lines of a CSV message after its header line.
DataRows(message) == Tail(Split(message, "\n"))

\* C10: the CSV of a batch has one data row for each item whose paymentId is
\* the batch's id, in their order, and no other; the second fields of the
\* data rows add up to totalFor of the batch.
CsvRowsAreBatch ==
    out.kind = "csv" =>
        LET rows == DataRows(out.message)
            of == SelectSeq(items, LAMBDA it : it.paymentId = out.batch.id)
            field(k, n) == Split(rows[k], ",")[n]
        IN  /\ Len(rows) = Len(of)
            /\ \A k \in 1..Len(rows) :
                  /\ field(k, 1) = TypeName(of[k].type)
                  /\ Number(field(k, 2)) = of[k].priceCents
            /\ Sum([k \in 1..Len(rows) |-> Number(field(k, 2))]) = totalFor(out.batch, items)

\* C10's case: a batch of two items, one with a comma in its label, whose
\* two rows add up to 210.
CsvOf210 ==
    /\ out.kind = "csv"
    /\ Len(DataRows(out.message)) = 2
    /\ \E k \in 1..Len(items) : items[k].userLabel = <<"B", ",">>
    /\ totalFor(out.batch, items) = 210

\* The lines of a CSV message.
Lines(message) == Split(message, "\n")

\* The fields of a data row as the claim lists them, with commas between.
RowOf(it, b) ==
    TypeName(it.type) \o <<",">> \o String(it.priceCents) \o <<",">> \o String(it.date)
      \o <<",">> \o it.userLabel \o <<",">>
      \o (IF it.paidAt = Missing THEN << >> ELSE String(it.paidAt)) \o <<",">> \o String(b.id)

RowsInOrder ==
    LET of == SelectSeq(items, LAMBDA it : it.paymentId = out.batch.id)
        lines == Lines(out.message)
    IN  /\ Len(lines) = Len(of) + 1
        /\ \A k \in 1..Len(of) : lines[k + 1] = RowOf(of[k], out.batch)

\* C11 as stated: the first line of the CSV export is exactly
\* type,price_cents,date,user,paid_at,batch_id and each data row lists type,
\* priceCents, creation date, label, paidAt and batch id in that order.
CsvEnglishHeader ==
    out.kind = "csv" =>
        /\ Lines(out.message)[1] =
              <<"type", ",", "price_cents", ",", "date", ",", "user", ",", "paid_at",
                ",", "batch_id">>
        /\ RowsInOrder

\* C11 as amended: the first line of the CSV export is exactly
\* type,prijs_cents,datum,user,betaald_op,batch_id, and each data row lists
\* the item's type, priceCents, creation date, label, paidAt and the batch id
\* in that order, an empty label leaving its field empty.
CsvHeaderAndRows ==
    out.kind = "csv" =>
        /\ Lines(out.message)[1] =
              <<"type", ",", "prijs_cents", ",", "datum", ",", "user", ",", "betaald_op",
                ",", "batch_id">>
        /\ RowsInOrder

\* C11's case: the CSV of batch 2 with one row, of a Snoep without a label.
CsvRowNoLabel ==
    /\ out.kind = "csv"
    /\ out.batch.id = 2
    /\ Len(Lines(out.message)) = 2
    /\ Lines(out.message)[2] =
          <<"S", "n", "o", "e", "p", ",", "7", "0", ",", "2", ",", ",", "1", ",", "2">>

\* C12: a press of Afrekenen with nothing selected changes neither the
\* persisted batches nor any item and starts nothing, and no createPayment
\* is ever started with an empty selection.
EmptySettleIgnored ==
    [][/\ out' # out =>
             /\ store' = store /\ stored' = stored
             /\ items' = items /\ payments' = payments
             /\ queue' = queue /\ tasks' = tasks
       /\ tasks' # tasks /\ Len(tasks') > Len(tasks) /\ tasks'[Len(tasks')].by = "createPayment" =>
             tasks'[Len(tasks')].c.sel # << >>
       /\ nextBatch' # nextBatch => hist'.settled[nextBatch] # {}]_vars

\* C12's case: Afrekenen was pressed with nothing selected while items were
\* listed and one batch was persisted: that batch is still the only one.
PressedWithNothingSelected ==
    /\ out.kind = "disabled"
    /\ tab = "list"
    /\ items # << >>
    /\ tasks = << >> /\ queue = << >>
    /\ Len(store[K_PAYMENTS]) = 1
    /\ nextBatch = 2

IsPositiveInteger(n) == n > 0 /\ n # Infinity

\* C13: starting from the default settings, basePriceCents is a positive
\* integer in every reachable state, in the screen's settings and in the
\* persisted settings, because a save of an invalid price changes neither.
BasePricePositiveInteger ==
    /\ IsPositiveInteger(settings.basePriceCents)
    /\ IsPositiveInteger(store[K_SETTINGS].basePriceCents)

\* C14: loading never throws; it gives the type's default when the key
\* holds nothing or what it holds cannot be read or decoded, and the
\* persisted value otherwise.
LoadFailsSoft ==
    (out.kind = "codec" /\ out.loaded) =>
        /\ ~out.got.threw
        /\ out.got.value =
              IF out.raw.kind = "json" THEN out.raw.doc
              ELSE IF out.key = K_SETTINGS
                   THEN [basePriceCents |-> 70, currencyCode |-> "EUR"]
                   ELSE << >>

\* Two values of one collection give the same reads: an optional field that
\* is undefined reads like one that is not there.
SameReads(key, x, y) ==
    IF key # K_ITEMS THEN x = y
    ELSE /\ Len(x) = Len(y)
         /\ \A k \in 1..Len(x) :
               [x[k] EXCEPT !.paidAt = Drop(@), !.paymentId = Drop(@)] =
                 [y[k] EXCEPT !.paidAt = Drop(@), !.paymentId = Drop(@)]

\* C15: a value x of any of the three collections that is saved with
\* saveJSON and loaded back with loadJSON comes back equal to x.
CodecRoundTrip ==
    (out.kind = "codec" /\ out.saved /\ out.loaded) =>
        /\ ~out.got.threw
        /\ SameReads(out.key, out.got.value, out.x)

\* it and to differ in nothing but paidAt and paymentId.
SameButPaid(it, to) ==
    [it EXCEPT !.paidAt = Missing, !.paymentId = Missing] =
      [to EXCEPT !.paidAt = Missing, !.paymentId = Missing]

\* C16: the items createPayment(S) sets are the items it was called with,
\* in their order, those outside S as they were and those of S changed in
\* paidAt and paymentId only; the items remove(b) saves are the screen's
\* items, in their order, those with another paymentId as they were and those
\* of b changed in paidAt and paymentId only.
OnlyPaidFieldsChange ==
    [][/\ (BatchSaved /\ Head(queue).alive) =>
             LET before == Head(queue).c.items
                 S == Uuids(Head(queue).c.sel)
             IN  /\ Len(items') = Len(before)
                 /\ \A k \in 1..Len(before) :
                       IF before[k].uuid \in S
                       THEN SameButPaid(before[k], items'[k])
                       ELSE items'[k] = before[k]
       /\ (Len(queue') = Len(queue) + 1 /\ queue'[Len(queue')].by = "remove") =>
             LET after == queue'[Len(queue')].val
                 b == queue'[Len(queue')].c.pid
             IN  /\ Len(after) = Len(items)
                 /\ \A k \in 1..Len(items) :
                       IF items[k].paymentId = b
                       THEN SameButPaid(items[k], after[k])
                       ELSE after[k] = items[k]]_vars

\* C16's case: of two items settled into two batches, remove of one batch
\* saves its item cleared and the other item as it was, in the same order.
RemoveSavesOtherAsItWas ==
    /\ tab = "pay"
    /\ Len(items) = 2
    /\ \E q \in 1..Len(queue) :
          /\ queue[q].by = "remove"
          /\ Len(queue[q].val) = 2
          /\ \E k, j \in 1..2 :
                /\ items[k].paymentId = queue[q].c.pid
                /\ Unmarked(queue[q].val[k])
                /\ Truthy(items[j].paymentId)
                /\ items[j].paymentId # queue[q].c.pid
                /\ queue[q].val[j] = items[j]

\* C17: every item the Overview screen passes to createPayment is unpaid
\* when the call is made, whatever the onlyUnpaid switch and the check boxes.
SettlesOnlyUnpaid ==
    [][(/\ Len(tasks') = Len(tasks) + 1
        /\ tasks'[Len(tasks')].by = "createPayment") =>
          LET sel == tasks'[Len(tasks')].c.sel
          IN  \A j \in 1..Len(sel) : ~Truthy(sel[j].paidAt) /\ ~Truthy(sel[j].paymentId)]_vars

\* C18: in every reachable state each persisted item that has paidAt or
\* paymentId references a batch that is in the persisted batches.
PaidItemsReferenceStoredBatch ==
    \A k \in 1..Len(store[K_ITEMS]) :
        (Truthy(store[K_ITEMS][k].paidAt) \/ Truthy(store[K_ITEMS][k].paymentId)) =>
            store[K_ITEMS][k].paymentId \in Ids(store[K_PAYMENTS])

\* C19: the items one settle marks all have the same paidAt, and it is the
\* createdAt of the batch that settle persisted.
PaidAtIsCreatedAt ==
    \A k \in 1..Len(items) :
        \A j \in 1..Len(store[K_PAYMENTS]) :
            items[k].paymentId = store[K_PAYMENTS][j].id =>
                items[k].paidAt = store[K_PAYMENTS][j].createdAt

\* C20: when add, with no other handler at work, sets the items of its
\* mounted Add screen, they are the new item, whose uuid no persisted item
\* has, followed by the persisted items as they were, in their order: also
\* when add was pressed before the screen's load of the items had resolved.
AddPrependsToPersisted ==
    [][(\E i \in 1..Len(tasks) : AddItem(i) /\ tasks[i].alive /\ Handlers = 1) =>
          /\ items' # << >>
          /\ Head(items').uuid \notin Uuids(store[K_ITEMS])
          /\ Tail(items') = store[K_ITEMS]]_vars

\* C21: when add creates its item while a basePriceCents other than the
\* default 70 is persisted, the item is priced from the persisted value:
\* that value for Fris, twice that value for Bier.
PricedFromPersisted ==
    [][\A i \in 1..Len(tasks) :
          (AddItem(i) /\ store[K_SETTINGS].basePriceCents # 70) =>
              tasks[i].c.priceCents =
                IF tasks[i].c.type = "Bier" THEN 2 * store[K_SETTINGS].basePriceCents
                ELSE store[K_SETTINGS].basePriceCents]_vars

\* C22: whenever nothing is in flight for the mounted screen, no load, no
\* save and no handler, each collection the screen holds equals the
\* persisted one.
MemoryMirrorsStorage ==
    (queue = << >> /\ tasks = << >>) =>
        /\ settings = store[K_SETTINGS]
        /\ tab \in {"add", "list", "pay"} => items = store[K_ITEMS]
        /\ tab = "pay" => payments = store[K_PAYMENTS]

\* C23: when add sets the items of its mounted screen, an item that came
\* into the screen's items after add was pressed is not among them any more:
\* of two adds that overlap, the one that sets the items last wins.
LastAddWins ==
    [][\A i \in 1..Len(tasks) :
          (AddItem(i) /\ tasks[i].alive) =>
              \A k \in 1..Len(items) :
                  items[k].uuid \notin Uuids(tasks[i].c.items) =>
                      items[k].uuid \notin Uuids(items')]_vars

\* C23's case: two adds have set the items of one Add screen, the second
\* pressed before the first had set them.  The first item is persisted; the
\* screen holds the second item only, and the one save still in flight, the
\* last write, is of the second item only.
TwoAddsOneItem ==
    /\ tab = "add"
    /\ Len(tasks) = 2
    /\ \A i \in 1..2 : tasks[i].by = "add" /\ tasks[i].t = "haptic" /\ tasks[i].alive
    /\ Len(items) = 1 /\ items[1].uuid = 2
    /\ Len(store[K_ITEMS]) = 1 /\ store[K_ITEMS][1].uuid = 1
    /\ queue = <<HookSet(K_ITEMS, items)>>

\* C24: a write that fails is one that the operation which issued it
\* awaits, so that the operation fails with it, and it changes nothing: no
\* item of the screen is marked and nothing is persisted.
FailedWriteReported ==
    [][WriteFails =>
          /\ Head(queue).by \in {"createPayment", "remove"}
          /\ items' = items
          /\ store' = store]_vars

\* C25: when a screen has been mounted and the user does nothing, then once
\* every load and save of the mount is done the persisted items, batches and
\* settings are what they were before the mount.
MountIsNeutral ==
    (out.kind = "mounted" /\ queue = << >>) => store = out.before

\* C25's case: the Payments screen has been mounted over a paid item, its
\* batch and a base price of 50, and all its loads and saves are done.
PaymentsMountDone ==
    /\ out.kind = "mounted"
    /\ tab = "pay"
    /\ queue = << >>
    /\ Len(out.before[K_ITEMS]) = 1
    /\ Len(out.before[K_PAYMENTS]) = 1
    /\ out.before[K_SETTINGS].basePriceCents = 50
    /\ items = out.before[K_ITEMS]
    /\ payments = out.before[K_PAYMENTS]

\* C26: once nothing is in flight any more, every item that Add has confirmed
\* is among the persisted items, and every batch that Afrekenen has confirmed
\* and nobody has reversed is among the persisted batches, its items
\* persisted as paid.
AcknowledgedIsDurable ==
    (queue = << >> /\ tasks = << >>) =>
        /\ \A u \in 1..MaxItems :
              hist.born[u] # 0 => u \in Uuids(store[K_ITEMS])
        /\ \A b \in 1..MaxBatches :
              (hist.settled[b] # {} /\ b \notin hist.reversed) =>
                  /\ \E k \in 1..Len(store[K_PAYMENTS]) : store[K_PAYMENTS][k].id = b
                  /\ \A u \in hist.settled[b] :
                        \E k \in 1..Len(store[K_ITEMS]) :
                            /\ store[K_ITEMS][k].uuid = u
                            /\ store[K_ITEMS][k].paidAt # Missing

====
